---- MODULE Spec2Model ----
(***************************************************************************)
(* Model of the two sample strategies of aat:                              *)
(*   GoldenDeathStrategy     (aat/strategy/sample/iex/golden_death.py)     *)
(*   SellPlusPercentStrategy (aat/strategy/sample/sell_plus_percent.py)    *)
(* One strategy instance runs per behaviour (variable strategy).  The      *)
(* engine around it (order book, past trades, clock, event delivery) is    *)
(* the environment: it delivers one event at a time and each handler runs  *)
(* to completion.                                                          *)
(*                                                                         *)
(* Prices are integers.  The moving averages, the 0.5% bias and the        *)
(* percent bands are rationals in the code (floats); the model compares    *)
(* them by cross-multiplication and stores the band thresholds in          *)
(* hundredths.  On the price sets used here the float comparisons and the  *)
(* exact ones agree.                                                       *)
(***************************************************************************)
EXTENDS Integers, Sequences, FiniteSets, TLC

\* ---------------------------------------------------------------- bounds
\* number of trade events delivered to the crossover strategy
MaxTrades == 5
\* number of fills delivered per instrument
MaxPast == 3
\* trade and fill prices
Prices == {8, 9, 10}
\* instruments the engine knows
Instruments == {"A", "B"}
\* clock readings (hour, minute) handed out by now()
Times == {<<9, 45>>, <<9, 50>>, <<15, 30>>, <<15, 45>>, <<16, 0>>}
\* (long_ma, short_ma) configurations, long_ma > short_ma
WindowConfigs == {<<3, 2>>, <<2, 1>>}
\* (bail_hour, bail_minute) configurations
BailConfigs == {<<15, 45>>, <<9, 45>>}
\* percent configurations of the percent-band strategy (the default)
Percents == {10}

\* ------------------------------------------------------ program constants
Notional == 1000
WarmupHour == 9
WarmupMinute == 45
BiasNum == 1005
BiasDen == 1000

\* ------------------------------------------------------------- values
\* Optional[Order] = None
NoOrder == [id |-> 0, side |-> "NONE", price |-> 0, volume |-> 0, instrument |-> "-"]
\* absent key of the _stop dictionary
NoBand == [take |-> 0, loss |-> 0, volume |-> 0]
\* no event yet
NoEvent == [kind |-> "onStart", instrument |-> "-", price |-> 0, volume |-> 0, my_order |-> NoOrder]

VARIABLES
  strategy,        \* which strategy class was instantiated
  halted,          \* the process has exited
  \* --- engine (environment)
  book,            \* open orders of the strategy
  ntrades,         \* instrument -> number of past trades (fills) of the strategy
  now,             \* clock reading of the event being processed
  nextId,          \* number of Order objects created so far
  \* --- GoldenDeathStrategy
  symbol, long_ma, short_ma, bail_hour, bail_minute,
  long_ma_list, short_ma_list,
  triggered, entered, buy_order, volume, sell_order,
  \* --- SellPlusPercentStrategy
  percent, stop,
  \* --- observation of the last handler run
  ev,              \* the event it processed
  out,             \* the order it passed to newOrder, or NoOrder
  raised,          \* the exception it raised, or "none"
  \* --- history
  hist,            \* all prices delivered to GoldenDeathStrategy.onTrade
  entry_volume,    \* instrument -> volume recorded at the latest buy fill
  holding          \* instrument -> a buy fill occurred and no sell fill since

envVars == <<book, ntrades, now, nextId>>
cfgVars == <<strategy, symbol, long_ma, short_ma, bail_hour, bail_minute, percent>>
winVars == <<long_ma_list, short_ma_list, hist>>
gdVars  == <<triggered, entered, buy_order, volume, sell_order>>
sppVars == <<stop>>
obsVars == <<ev, out, raised>>
ghostVars == <<entry_volume, holding>>
vars == <<halted, envVars, cfgVars, winVars, gdVars, sppVars, obsVars, ghostVars>>

\* ------------------------------------------------------------- helpers
RECURSIVE Sum(_)
Sum(s) == IF s = <<>> THEN 0 ELSE Head(s) + Sum(Tail(s))

\* lst[-n:]
SliceKeepFirst(lst, n) ==
  IF Len(lst) <= n THEN lst ELSE SubSeq(lst, 1, n)
Slice(lst, n) ==
  IF n = 0 \/ Len(lst) <= n THEN lst ELSE SubSeq(lst, Len(lst) - n + 1, Len(lst))

\* math.ceil(a / b) for positive integers
CeilDiv(a, b) == (a + b - 1) \div b

\* pd.Series(lst).rolling(n, min_periods=n).mean().iloc[-1] is a number
\* (not NaN) iff the series holds at least n values
MvgAvDefined(lst, n) == n > 0 /\ Len(lst) >= n

\* long_mvg_av + long_mvg_av * 0.005 > short_mvg_av   (False on NaN)
LongGtShortNoBias(L, S, nl, ns) ==
  /\ MvgAvDefined(L, nl) /\ MvgAvDefined(S, ns)
  /\ Sum(Slice(L, nl)) * ns > Sum(Slice(S, ns)) * nl
LongGtShort(L, S, nl, ns) ==
  /\ MvgAvDefined(L, nl) /\ MvgAvDefined(S, ns)
  /\ Sum(Slice(L, nl)) * BiasNum * ns > Sum(Slice(S, ns)) * BiasDen * nl

\* long_mvg_av <= short_mvg_av   (False on NaN)
LongLeShort(L, S, nl, ns) ==
  /\ MvgAvDefined(L, nl) /\ MvgAvDefined(S, ns)
  /\ ~LongGtShort(L, S, nl, ns)

\* self.now().hour == 9 and self.now().minute <= 45
InWarmupStrict(t) == t[1] = WarmupHour /\ t[2] < WarmupMinute
InWarmup(t) == t[1] = WarmupHour /\ t[2] <= WarmupMinute

\* self.now().hour == self._bail_hour and self.now().minute >= self._bail_minute
BailTime(t, bh, bm) == t[1] = bh /\ t[2] >= bm

\* self.orders(instrument)
OrdersOf(bk, inst) == {o \in bk : o.instrument = inst}

\* Order(side=..., price=..., volume=..., instrument=...)
NewOrder(side, price, vol, inst) ==
  [id |-> nextId + 1, side |-> side, price |-> price, volume |-> vol, instrument |-> inst]

\* ------------------------------------------------ engine (environment)
\* await self.newOrder(order): the order becomes an open order of the book
Submitted(bk, o) == IF o = NoOrder THEN bk ELSE bk \cup {o}

\* the book after a fill of o: a complete fill closes the order
AfterFill(bk, o, complete) == IF complete THEN bk \ {o} ELSE bk

\* volume of a fill of o
FillVolume(o, complete) == IF complete THEN o.volume ELSE o.volume \div 2

\* ------------------------------------------------ GoldenDeathStrategy
\* not self._sell_order
SellSlotFreeAlways(so) == TRUE
SellSlotFree(so) == so = NoOrder

\* not self.orders(trade.instrument)
NoOpenOrdersAlways(bk, inst) == TRUE
NoOpenOrders(bk, inst) == OrdersOf(bk, inst) = {}

\* self._buy_order and self._buy_order == trade.my_order
MatchesAny(slot, o) == slot # NoOrder
Matches(slot, o) == slot # NoOrder /\ slot = o

\* volume=self._volume of the SELL order
SellVolumeFromPrice(v, price) == CeilDiv(Notional, price)
SellVolume(v, price) == v

\* the branch of onTrade taken on windows L, S at clock t
GDDecideBuyUnarmed(L, S, t, inst) ==
  IF Len(L) < long_ma THEN "return"
  ELSE IF InWarmup(t) THEN "return"
  ELSE IF entered THEN
    IF ~triggered THEN "raise"
    ELSE IF LongGtShort(L, S, long_ma, short_ma) THEN
      IF SellSlotFree(sell_order) THEN "sell" ELSE "none"
    ELSE IF SellSlotFree(sell_order) /\ BailTime(t, bail_hour, bail_minute) THEN "sell"
    ELSE "none"
  ELSE IF LongLeShort(L, S, long_ma, short_ma) THEN
    IF NoOpenOrders(book, inst) THEN "buy" ELSE "none"
  ELSE IF ~triggered THEN "arm"
  ELSE "none"
GDDecide(L, S, t, inst) ==
  IF Len(L) < long_ma THEN "return"
  ELSE IF InWarmup(t) THEN "return"
  ELSE IF entered THEN
    IF ~triggered THEN "raise"
    ELSE IF LongGtShort(L, S, long_ma, short_ma) THEN
      IF SellSlotFree(sell_order) THEN "sell" ELSE "none"
    ELSE IF SellSlotFree(sell_order) /\ BailTime(t, bail_hour, bail_minute) THEN "sell"
    ELSE "none"
  ELSE IF ~triggered THEN "arm"
  ELSE IF LongLeShort(L, S, long_ma, short_ma) THEN
    IF NoOpenOrders(book, inst) THEN "buy" ELSE "none"
  ELSE "none"

\* self._triggered after the branch d, gt being long_mvg_av > short_mvg_av
NextTriggeredWhenFlat(d, tr, gt) == IF d \in {"arm", "buy", "none"} THEN gt ELSE tr
NextTriggered(d, tr, gt) == IF d = "arm" THEN gt ELSE tr

\* onTrade(event) for a trade of inst at price, the clock reading t
GDHandleTrade(price, t, inst) ==
  /\ strategy = "GoldenDeath" /\ ~halted
  /\ Len(hist) < MaxTrades
  /\ LET L == Slice(Append(long_ma_list, price), long_ma)
         S == Slice(Append(short_ma_list, price), short_ma)
         d == GDDecide(L, S, t, inst)
         vol == CeilDiv(Notional, price)
         o == CASE d = "sell" -> NewOrder("SELL", price, SellVolume(volume, price), inst)
                [] d = "buy" -> NewOrder("BUY", price, vol, inst)
                [] OTHER -> NoOrder
     IN /\ long_ma_list' = L
        /\ short_ma_list' = S
        /\ hist' = Append(hist, price)
        /\ now' = t
        /\ triggered' = NextTriggered(d, triggered, LongGtShort(L, S, long_ma, short_ma))
        /\ volume' = IF d = "buy" THEN vol ELSE volume
        /\ buy_order' = IF d = "buy" THEN o ELSE buy_order
        /\ sell_order' = IF d = "sell" THEN o ELSE sell_order
        /\ out' = o
        /\ book' = Submitted(book, o)
        /\ nextId' = IF o = NoOrder THEN nextId ELSE nextId + 1
        /\ raised' = IF d = "raise" THEN "Never in this state" ELSE "none"
        /\ ev' = [kind |-> "onTrade", instrument |-> inst, price |-> price,
                  volume |-> 0, my_order |-> NoOrder]
  /\ UNCHANGED <<halted, ntrades, cfgVars, entered, sppVars, ghostVars>>

\* the engine delivers the trades of the subscribed symbol
GDOnTrade(price, t, inst) ==
  /\ inst = symbol
  /\ GDHandleTrade(price, t, inst)

\* the engine delivers the trades of every instrument (onTrade does not look at
\* trade.instrument before it updates the windows and the state)
GDOnTradeAny(price, t, inst) == GDHandleTrade(price, t, inst)

\* self._buy_order = None
BuySlotAfterFillKept(slot) == slot
BuySlotAfterFill(slot) == NoOrder

GDOnTraded(o, complete) ==
  /\ strategy = "GoldenDeath" /\ ~halted
  /\ o \in book
  /\ ntrades[o.instrument] < MaxPast
  /\ IF Matches(buy_order, o)
       THEN entered' = TRUE /\ buy_order' = BuySlotAfterFill(buy_order) /\ UNCHANGED sell_order
       ELSE IF Matches(sell_order, o)
         THEN entered' = FALSE /\ sell_order' = NoOrder /\ UNCHANGED buy_order
         ELSE UNCHANGED <<entered, buy_order, sell_order>>
  /\ book' = AfterFill(book, o, complete)
  /\ ntrades' = [ntrades EXCEPT ![o.instrument] = @ + 1]
  /\ ev' = [kind |-> "onTraded", instrument |-> o.instrument, price |-> o.price,
            volume |-> FillVolume(o, complete), my_order |-> o]
  /\ out' = NoOrder
  /\ raised' = "none"
  /\ entry_volume' = IF o.side = "BUY"
                       THEN [entry_volume EXCEPT ![o.instrument] = o.volume]
                       ELSE entry_volume
  /\ holding' = [holding EXCEPT ![o.instrument] = (o.side = "BUY")]
  /\ UNCHANGED <<halted, now, nextId, cfgVars, winVars, triggered, volume, sppVars>>

\* sys.exit(0)
GDOnRejectedContinue ==
  /\ strategy = "GoldenDeath" /\ ~halted
  /\ ev' = [NoEvent EXCEPT !.kind = "onRejected"]
  /\ out' = NoOrder
  /\ raised' = "none"
  /\ UNCHANGED <<halted, envVars, cfgVars, winVars, gdVars, sppVars, ghostVars>>
GDOnRejected ==
  /\ strategy = "GoldenDeath" /\ ~halted
  /\ halted' = TRUE
  /\ ev' = [NoEvent EXCEPT !.kind = "onRejected"]
  /\ out' = NoOrder
  /\ raised' = "SystemExit"
  /\ UNCHANGED <<envVars, cfgVars, winVars, gdVars, sppVars, ghostVars>>

\* ------------------------------------------------ SellPlusPercentStrategy
\* self._up_percent, self._down_percent, in hundredths
UpPercent(p) == 100 + p
DownPercent(p) == 100 - p

\* (trade.price * up, trade.price * down, trade.volume), prices in hundredths
Band(price, vol, p) ==
  [take |-> price * UpPercent(p), loss |-> price * DownPercent(p), volume |-> vol]

\* trade.price >= self._stop[i][0] or trade.price <= self._stop[i][1]
ExitSignalTakeOnly(price, band) == price * 100 >= band.take
ExitSignal(price, band) == price * 100 >= band.take \/ price * 100 <= band.loss

\* the branch of onTrade taken for a trade of inst at price
SPPDecideAnyPast(price, inst) ==
  IF NoOpenOrders(book, inst) THEN
    IF ntrades[inst] = 0 THEN "buy"
    ELSE IF ntrades[inst] >= 1 /\ stop[inst] # NoBand /\ ExitSignal(price, stop[inst])
      THEN "sell"
    ELSE "none"
  ELSE "none"
SPPDecide(price, inst) ==
  IF NoOpenOrders(book, inst) THEN
    IF ntrades[inst] = 0 THEN "buy"
    ELSE IF ntrades[inst] = 1 /\ stop[inst] # NoBand /\ ExitSignal(price, stop[inst])
      THEN "sell"
    ELSE "none"
  ELSE "none"

SPPOnTrade(price, inst) ==
  /\ strategy = "SellPlusPercent" /\ ~halted
  /\ LET d == SPPDecide(price, inst)
         o == CASE d = "buy" -> NewOrder("BUY", price, CeilDiv(Notional, price), inst)
                [] d = "sell" -> NewOrder("SELL", price, stop[inst].volume, inst)
                [] OTHER -> NoOrder
     IN /\ out' = o
        /\ book' = Submitted(book, o)
        /\ nextId' = IF o = NoOrder THEN nextId ELSE nextId + 1
  /\ raised' = "none"
  /\ ev' = [kind |-> "onTrade", instrument |-> inst, price |-> price,
            volume |-> 0, my_order |-> NoOrder]
  /\ UNCHANGED <<halted, ntrades, now, cfgVars, winVars, gdVars, sppVars, ghostVars>>

\* self._stop[trade.instrument] = (...)
StopAfterBoughtKeep(st, inst, price, vol, p) ==
  IF st[inst] = NoBand THEN [st EXCEPT ![inst] = Band(price, vol, p)] ELSE st
StopAfterBought(st, inst, price, vol, p) ==
  [st EXCEPT ![inst] = Band(price, vol, p)]

\* del self._stop[trade.instrument]
StopAfterSoldKeep(st, inst) == st
StopAfterSold(st, inst) == [st EXCEPT ![inst] = NoBand]

\* onBought(event): event.target is a trade of inst at price for vol
OnBought(inst, price, vol, o) ==
  /\ stop' = StopAfterBought(stop, inst, price, vol, percent)
  /\ ev' = [kind |-> "onBought", instrument |-> inst, price |-> price,
            volume |-> vol, my_order |-> o]
  /\ out' = NoOrder
  /\ raised' = "none"
  /\ entry_volume' = [entry_volume EXCEPT ![inst] = vol]
  /\ holding' = [holding EXCEPT ![inst] = TRUE]
  /\ ntrades' = [ntrades EXCEPT ![inst] = @ + 1]

\* onSold(event): del raises KeyError when inst has no band
OnSoldSilent(inst, price, vol, o) ==
  /\ raised' = "none"
  /\ stop' = StopAfterSold(stop, inst)
  /\ ev' = [kind |-> "onSold", instrument |-> inst, price |-> price,
            volume |-> vol, my_order |-> o]
  /\ out' = NoOrder
  /\ holding' = [holding EXCEPT ![inst] = FALSE]
  /\ ntrades' = [ntrades EXCEPT ![inst] = @ + 1]
OnSold(inst, price, vol, o) ==
  /\ IF stop[inst] = NoBand
       THEN raised' = "KeyError" /\ UNCHANGED stop
       ELSE raised' = "none" /\ stop' = StopAfterSold(stop, inst)
  /\ ev' = [kind |-> "onSold", instrument |-> inst, price |-> price,
            volume |-> vol, my_order |-> o]
  /\ out' = NoOrder
  /\ holding' = [holding EXCEPT ![inst] = FALSE]
  /\ ntrades' = [ntrades EXCEPT ![inst] = @ + 1]

\* a buy order of the strategy is filled (in part or completely) at price
SPPOnBought(o, price, complete) ==
  /\ strategy = "SellPlusPercent" /\ ~halted
  /\ o \in book /\ o.side = "BUY"
  /\ ntrades[o.instrument] < MaxPast
  /\ OnBought(o.instrument, price, FillVolume(o, complete), o)
  /\ book' = AfterFill(book, o, complete)
  /\ UNCHANGED <<halted, now, nextId, cfgVars, winVars, gdVars>>

\* a sell order of the strategy is filled (in part or completely) at price
SPPOnSold(o, price, complete) ==
  /\ strategy = "SellPlusPercent" /\ ~halted
  /\ o \in book /\ o.side = "SELL"
  /\ ntrades[o.instrument] < MaxPast
  /\ OnSold(o.instrument, price, FillVolume(o, complete), o)
  /\ book' = AfterFill(book, o, complete)
  /\ UNCHANGED <<halted, now, nextId, cfgVars, winVars, gdVars, entry_volume>>

\* volumes of fills delivered without an order of the book
FillVolumes == {CeilDiv(Notional, p) : p \in Prices}

\* onBought delivered for any instrument, whatever the book holds
BoughtEvent(inst, price, vol) ==
  /\ strategy = "SellPlusPercent" /\ ~halted
  /\ ntrades[inst] < MaxPast
  /\ OnBought(inst, price, vol, NoOrder)
  /\ UNCHANGED <<halted, book, now, nextId, cfgVars, winVars, gdVars>>

\* onSold delivered for any instrument, whatever the book holds
SoldEvent(inst, price, vol) ==
  /\ strategy = "SellPlusPercent" /\ ~halted
  /\ ntrades[inst] < MaxPast
  /\ OnSold(inst, price, vol, NoOrder)
  /\ UNCHANGED <<halted, book, now, nextId, cfgVars, winVars, gdVars, entry_volume>>

\* sys.exit(0)
SPPOnRejectedContinue ==
  /\ strategy = "SellPlusPercent" /\ ~halted
  /\ ev' = [NoEvent EXCEPT !.kind = "onRejected"]
  /\ out' = NoOrder
  /\ raised' = "none"
  /\ UNCHANGED <<halted, envVars, cfgVars, winVars, gdVars, sppVars, ghostVars>>
SPPOnRejected ==
  /\ strategy = "SellPlusPercent" /\ ~halted
  /\ halted' = TRUE
  /\ ev' = [NoEvent EXCEPT !.kind = "onRejected"]
  /\ out' = NoOrder
  /\ raised' = "SystemExit"
  /\ UNCHANGED <<envVars, cfgVars, winVars, gdVars, sppVars, ghostVars>>

\* the windows, bail time and clock are read by GoldenDeathStrategy only, the
\* percent by SellPlusPercentStrategy only: the unused ones keep the defaults
Init ==
  /\ strategy \in {"GoldenDeath", "SellPlusPercent"}
  /\ halted = FALSE
  /\ book = {}
  /\ ntrades = [i \in Instruments |-> 0]
  /\ now = <<9, 45>>
  /\ nextId = 0
  /\ symbol = "A"
  /\ \E w \in WindowConfigs :
       /\ long_ma = w[1] /\ short_ma = w[2]
       /\ strategy = "SellPlusPercent" => w = <<3, 2>>
  /\ \E b \in BailConfigs :
       /\ bail_hour = b[1] /\ bail_minute = b[2]
       /\ strategy = "SellPlusPercent" => b = <<15, 45>>
  /\ long_ma_list = <<>>
  /\ short_ma_list = <<>>
  /\ triggered = FALSE
  /\ entered = FALSE
  /\ buy_order = NoOrder
  /\ volume = 0
  /\ sell_order = NoOrder
  /\ percent \in Percents
  /\ strategy = "GoldenDeath" => percent = 10
  /\ stop = [i \in Instruments |-> NoBand]
  /\ ev = NoEvent
  /\ out = NoOrder
  /\ raised = "none"
  /\ hist = <<>>
  /\ entry_volume = [i \in Instruments |-> 0]
  /\ holding = [i \in Instruments |-> FALSE]

Next ==
  \/ \E price \in Prices, t \in Times, inst \in Instruments : GDOnTrade(price, t, inst)
  \/ \E o \in book, complete \in BOOLEAN : GDOnTraded(o, complete)
  \/ GDOnRejected
  \/ \E price \in Prices, inst \in Instruments : SPPOnTrade(price, inst)
  \/ \E o \in book, price \in Prices, complete \in BOOLEAN : SPPOnBought(o, price, complete)
  \/ \E o \in book, price \in Prices, complete \in BOOLEAN : SPPOnSold(o, price, complete)
  \/ SPPOnRejected

Spec == Init /\ [][Next]_vars

\* the percent-band strategy under every sequence of onBought and onSold events
InitFills == Init /\ strategy = "SellPlusPercent"

NextFills ==
  \/ \E inst \in Instruments, price \in Prices, vol \in FillVolumes :
       BoughtEvent(inst, price, vol)
  \/ \E inst \in Instruments, price \in Prices, vol \in FillVolumes :
       SoldEvent(inst, price, vol)

SpecFills == InitFills /\ [][NextFills]_vars

\* the crossover strategy alone, with the default bail time 15:45
InitCrossover == Init /\ strategy = "GoldenDeath" /\ bail_hour = 15

NextCrossover ==
  \/ \E price \in Prices, t \in Times, inst \in Instruments : GDOnTrade(price, t, inst)
  \/ \E o \in book, complete \in BOOLEAN : GDOnTraded(o, complete)
  \/ GDOnRejected

SpecCrossover == InitCrossover /\ [][NextCrossover]_vars

\* the crossover strategy in an engine that delivers the trades of every
\* instrument to it
InitMulti == Init /\ strategy = "GoldenDeath" /\ long_ma = 2 /\ bail_hour = 15

\* clock readings of this engine: outside the warm-up window, at the bail time
MultiTimes == {<<9, 50>>, <<15, 45>>}

NextMulti ==
  \/ \E price \in Prices, t \in MultiTimes, inst \in Instruments : GDOnTradeAny(price, t, inst)
  \/ \E o \in book, complete \in BOOLEAN : GDOnTraded(o, complete)
  \/ GDOnRejected

SpecMulti == InitMulti /\ [][NextMulti]_vars


\* ------------------------------------------------ vocabulary of the properties
GD == strategy = "GoldenDeath"
SPP == strategy = "SellPlusPercent"

\* the step is a handler run that passed an order of this side to newOrder
Emits(side) == out'.side = side /\ nextId' = nextId + 1
EmitsNothing == out' = NoOrder /\ nextId' = nextId

\* the step is a run of GoldenDeathStrategy.onTrade
GDTradeStep == GD /\ ev'.kind = "onTrade" /\ Len(hist') = Len(hist) + 1

\* the last n values of h in arrival order (all of h if it has fewer)
LastN(h, n) ==
  LET k == IF Len(h) < n THEN Len(h) ELSE n
  IN [i \in 1..k |-> h[Len(h) - k + i]]

\* signal over the delivered prices h: BEARISH iff long_avg * 1.005 > short_avg
SignalReady(h, nl) == Len(h) >= nl
Bearish(h, nl, ns) ==
  Sum(LastN(h, nl)) * 1005 * ns > Sum(LastN(h, ns)) * 1000 * nl
Bullish(h, nl, ns) == ~Bearish(h, nl, ns)

FlatUnarmed == ~entered /\ ~triggered
FlatArmed == ~entered /\ triggered
InPositionArmed == entered /\ triggered

\* C1: a BUY is never emitted for an instrument at a step where the book already
\* holds an open order for it, nor (crossover) while an emitted BUY awaits its fill
C1_NoDuplicateBuy ==
  [][Emits("BUY") =>
       /\ OrdersOf(book, out'.instrument) = {}
       /\ GD => buy_order = NoOrder]_vars

\* C1 witness: a BULLISH trade in FLAT_ARMED while the emitted BUY is still
\* open was processed and emitted nothing
C1_Witness ==
  /\ GD /\ ev.kind = "onTrade" /\ ~InWarmup(now)
  /\ FlatArmed /\ buy_order # NoOrder /\ buy_order \in book
  /\ SignalReady(hist, long_ma) /\ Bullish(hist, long_ma, short_ma)
  /\ out = NoOrder

\* the preconditions of the arming table: a crossover onTrade step with the long
\* window full, outside the warm-up window, with no open orders
C2_Pre ==
  /\ GDTradeStep /\ SignalReady(hist', long_ma) /\ ~InWarmup(now') /\ book = {}

C3_EnteredImpliesTriggered ==
  GD => /\ entered => triggered
        /\ raised # "Never in this state"

\* C3 witness: a trade was processed while in position
C3_Witness ==
  GD /\ entered /\ ev.kind = "onTrade" /\ SignalReady(hist, long_ma) /\ ~InWarmup(now)

\* C4: every emitted SELL carries the volume recorded at the latest BUY fill of
\* its instrument; the crossover position volume does not change while in position
C4_VolumeConservation ==
  [][/\ Emits("SELL") => out'.volume = entry_volume[out'.instrument]
     /\ (GD /\ entered) => volume' = volume]_vars

\* C4 witness: a SELL was emitted at a price at which sizing the order afresh
\* would give another volume
C4_Witness ==
  /\ GD /\ out.side = "SELL" /\ out.volume = entry_volume[out.instrument]
  /\ out.volume # CeilDiv(Notional, out.price)

\* C5: percent-band mode: an instrument has a stop band iff a BUY fill occurred
\* for it and no SELL fill occurred since
C5_BandLifecycle ==
  SPP => \A i \in Instruments : (stop[i] # NoBand) <=> holding[i]

\* C5 witness: a SELL fill removed the band of an instrument that had been
\* bought twice, while another instrument keeps its band
C5_Witness ==
  /\ SPP /\ ev.kind = "onSold" /\ raised = "none"
  /\ stop[ev.instrument] = NoBand /\ ntrades[ev.instrument] = 3
  /\ \E i \in Instruments : stop[i] # NoBand

\* C6: onRejected terminates the strategy from any state, and once it has
\* terminated no handler runs and no order is emitted
C6_RejectionHalts ==
  [][/\ ev'.kind = "onRejected" => halted'
     /\ halted => (halted' /\ nextId' = nextId /\ book' = book /\ ev' = ev)]_vars

\* C6 witness: the strategy was halted by a rejection while an order was open
C6_Witness ==
  halted /\ ev.kind = "onRejected" /\ book # {}

\* the scenario of C7: windows 3 and 2, prices 10, 10, 10, 9, 8
C7_Pre ==
  /\ GDTradeStep /\ long_ma = 3 /\ short_ma = 2 /\ ~InWarmup(now') /\ book = {}

\* C7 as stated: armed after the 3rd price, and the 5th price emits a BUY of
\* volume 125
C7_Original ==
  [][C7_Pre =>
       /\ hist' = <<10, 10, 10>> => FlatArmed'
       /\ (hist' = <<10, 10, 10, 9, 8>> /\ FlatArmed) =>
            (Emits("BUY") /\ out'.volume = 125)]_vars

\* C7 amended: with the 0.5% bias of the code, armed after the 3rd price
\* (10.05 > 10), and on the 5th price the signal is BEARISH (9.045 > 8.5): no
\* order is emitted and the state stays FLAT_ARMED
C7_Scenario ==
  [][C7_Pre =>
       /\ hist' = <<10, 10, 10>> => FlatArmed'
       /\ (hist' = <<10, 10, 10, 9, 8>> /\ FlatArmed) =>
            (EmitsNothing /\ FlatArmed' /\ buy_order' = NoOrder)]_vars

\* C7 witness: the five prices were processed outside the warm-up window, the
\* strategy is armed and flat and nothing was emitted
C7_Witness ==
  /\ GD /\ long_ma = 3 /\ short_ma = 2 /\ hist = <<10, 10, 10, 9, 8>>
  /\ ev.kind = "onTrade" /\ ~InWarmup(now)
  /\ FlatArmed /\ out = NoOrder /\ nextId = 0 /\ book = {}

\* C8: each window holds at most its configured number of prices and equals the
\* most recently delivered prices in arrival order
C8_WindowBound ==
  GD => /\ Len(long_ma_list) <= long_ma
        /\ Len(short_ma_list) <= short_ma
        /\ long_ma_list = LastN(hist, long_ma)
        /\ short_ma_list = LastN(hist, short_ma)

\* C8 witness: an old price has been evicted from the long window
C8_Witness ==
  /\ GD /\ Len(hist) > long_ma /\ Len(long_ma_list) = long_ma
  /\ Head(hist) # Head(long_ma_list)

OpenOrders(side) == {o \in book : o.side = side}

\* C9: at most one BUY and one SELL are outstanding; a pending slot is vacated
\* or replaced only by the onTraded step that delivers a fill of the order it
\* holds; a fill of any other order leaves the strategy state unchanged
C9_PendingSlots ==
  [][GD =>
       /\ Cardinality(OpenOrders("BUY")) <= 1 /\ Cardinality(OpenOrders("SELL")) <= 1
       /\ (buy_order # NoOrder /\ buy_order' # buy_order) =>
            (ev'.kind = "onTraded" /\ ev'.my_order = buy_order /\ buy_order' = NoOrder)
       /\ (sell_order # NoOrder /\ sell_order' # sell_order) =>
            (ev'.kind = "onTraded" /\ ev'.my_order = sell_order /\ sell_order' = NoOrder)
       /\ (ev'.kind = "onTraded" /\ ev'.my_order # buy_order /\ ev'.my_order # sell_order) =>
            UNCHANGED <<entered, triggered, volume, buy_order, sell_order>>]_vars

\* C9 witness: a second fill of the partly filled BUY arrived while a SELL was
\* pending, and the SELL is still pending
C9_Witness ==
  /\ GD /\ ev.kind = "onTraded" /\ ev.my_order.side = "BUY"
  /\ sell_order # NoOrder /\ entered /\ ev.my_order # sell_order

\* C10: while an emitted order of one side has had no matching fill (its slot is
\* still occupied), no trade event emits another order of that side
C10_LostConfirmation ==
  [][GD =>
       /\ buy_order # NoOrder => ~Emits("BUY")
       /\ sell_order # NoOrder => ~Emits("SELL")]_vars

\* C10 witness: with a SELL pending, a trade was processed at the bail time,
\* outside the warm-up window, and emitted nothing
C10_Witness ==
  /\ GD /\ ev.kind = "onTrade" /\ SignalReady(hist, long_ma)
  /\ ~InWarmup(now) /\ BailTime(now, bail_hour, bail_minute)
  /\ entered /\ sell_order # NoOrder /\ out = NoOrder

\* C11: an onSold for an instrument without a stop band raises an error and
\* leaves the stop-band map unchanged
C11_MissingStopBand ==
  [][(SPP /\ ev'.kind = "onSold" /\ stop[ev'.instrument] = NoBand) =>
       (raised' = "KeyError" /\ stop' = stop)]_vars

\* C11 witness: an onSold arrived for an instrument whose band had been removed
\* by an earlier onSold, while another instrument holds a band
C11_Witness ==
  /\ SPP /\ ev.kind = "onSold" /\ raised = "KeyError"
  /\ stop[ev.instrument] = NoBand /\ entry_volume[ev.instrument] > 0
  /\ \E i \in Instruments : stop[i] # NoBand

C13_SellDeduplication ==
  [][GD =>
       /\ Emits("SELL") =>
            /\ entered /\ sell_order = NoOrder /\ OpenOrders("SELL") = {}
            /\ sell_order' = out'
       /\ (sell_order # NoOrder /\ entered') =>
            (sell_order' = sell_order /\ ~Emits("SELL"))]_vars

\* C13 witness: with a SELL pending, a BEARISH trade was processed outside the
\* warm-up window and emitted nothing
C13_Witness ==
  /\ GD /\ ev.kind = "onTrade" /\ SignalReady(hist, long_ma) /\ ~InWarmup(now)
  /\ Bearish(hist, long_ma, short_ma)
  /\ entered /\ sell_order # NoOrder /\ sell_order \in book /\ out = NoOrder

\* the opening window of the session: 9:00 to 9:45
WarmupWindow(t) == t[1] = 9 /\ t[2] <= 45

\* C14: an onTrade that leaves the long window short of long_ma prices, or runs
\* inside the warm-up window, emits nothing and changes only the windows
C14_NoDecision ==
  [][(GDTradeStep /\ (Len(hist') < long_ma \/ WarmupWindow(now'))) =>
       /\ EmitsNothing /\ book' = book /\ raised' = "none"
       /\ UNCHANGED <<triggered, entered, volume, buy_order, sell_order>>
       /\ long_ma_list' = LastN(hist', long_ma)
       /\ short_ma_list' = LastN(hist', short_ma)]_vars

\* C14 witness: a BEARISH reading on a full long window inside the warm-up
\* window left the strategy FLAT_UNARMED
C14_Witness ==
  /\ GD /\ ev.kind = "onTrade" /\ WarmupWindow(now)
  /\ Len(hist) > long_ma /\ Bearish(hist, long_ma, short_ma)
  /\ FlatUnarmed /\ out = NoOrder

\* a crossover onTrade step that yields a signal: long window full, outside
\* the warm-up window
SignalStep == GDTradeStep /\ SignalReady(hist', long_ma) /\ ~WarmupWindow(now')

\* C15: in IN_POSITION_ARMED with no pending sell a BEARISH signal emits exactly
\* one SELL; the fill of the pending SELL clears the slot and gives FLAT_ARMED;
\* from there, with no open order, a BULLISH signal emits a BUY again
C15_ExitOnReversal ==
  [][GD =>
       /\ (SignalStep /\ InPositionArmed /\ sell_order = NoOrder
             /\ Bearish(hist', long_ma, short_ma)) =>
            /\ Emits("SELL") /\ sell_order' = out' /\ book' = book \cup {out'}
            /\ InPositionArmed'
       /\ (ev'.kind = "onTraded" /\ sell_order # NoOrder /\ ev'.my_order = sell_order) =>
            (sell_order' = NoOrder /\ FlatArmed')
       /\ (SignalStep /\ FlatArmed /\ ntrades[symbol] >= 2 /\ book = {}
             /\ Bullish(hist', long_ma, short_ma)) =>
            (Emits("BUY") /\ buy_order' = out')]_vars

\* C15 witness: after a BUY and a SELL were filled, a second BUY was emitted
C15_Witness ==
  /\ GD /\ out.side = "BUY" /\ nextId = 3 /\ ntrades[symbol] >= 2
  /\ FlatArmed /\ buy_order = out

\* the clock reading t is at or past the bail time bh:bm
AtOrPast(t, bh, bm) == t[1] > bh \/ (t[1] = bh /\ t[2] >= bm)

\* C16: in position with no pending sell, a trade processed at or past the bail
\* time emits a SELL although the signal is still BULLISH
C16_Bail ==
  [][(GDTradeStep /\ InPositionArmed /\ sell_order = NoOrder
        /\ AtOrPast(now', bail_hour, bail_minute)
        /\ Bullish(hist', long_ma, short_ma)) =>
       Emits("SELL")]_vars

\* a percent-band onTrade step for an instrument with a band, no open orders
\* and exactly one past trade
C17_Pre ==
  /\ SPP /\ ev'.kind = "onTrade"
  /\ stop[ev'.instrument] # NoBand
  /\ OrdersOf(book, ev'.instrument) = {}
  /\ ntrades[ev'.instrument] = 1

\* price >= take_profit_price or price <= stop_loss_price (band in hundredths)
C17_Exit ==
  \/ ev'.price * 100 >= stop[ev'.instrument].take
  \/ ev'.price * 100 <= stop[ev'.instrument].loss

\* C17: under C17_Pre, onTrade emits a SELL iff the price is at or beyond one of
\* the two thresholds, and emits nothing for a price strictly between them
C17_ExitSignal ==
  [][C17_Pre =>
       /\ C17_Exit => (Emits("SELL") /\ out'.instrument = ev'.instrument)
       /\ ~C17_Exit => EmitsNothing]_vars

\* C17 witness: a SELL was emitted at a price at or below the stop-loss price
C17_Witness ==
  /\ SPP /\ ev.kind = "onTrade" /\ out.side = "SELL"
  /\ stop[out.instrument] # NoBand
  /\ out.price * 100 <= stop[out.instrument].loss

\* C18: percent-band: a BUY is emitted only for an instrument without past
\* trades, a SELL only for one with exactly one, and none for one with two or more
C18_OneCycle ==
  [][(SPP /\ ev'.kind = "onTrade") =>
       /\ Emits("BUY") => (out'.instrument = ev'.instrument /\ ntrades[ev'.instrument] = 0)
       /\ Emits("SELL") => (out'.instrument = ev'.instrument /\ ntrades[ev'.instrument] = 1)
       /\ ntrades[ev'.instrument] >= 2 => EmitsNothing]_vars

\* C18 witness: after one buy fill and one sell fill of an instrument, with no
\* open order for it, a trade of it was processed and emitted nothing
C18_Witness ==
  /\ SPP /\ ev.kind = "onTrade" /\ out = NoOrder
  /\ ntrades[ev.instrument] = 2 /\ entry_volume[ev.instrument] > 0
  /\ ~holding[ev.instrument] /\ OrdersOf(book, ev.instrument) = {}

\* C19: crossover: a pending sell implies entered, a pending buy implies not
\* entered (so never both), and a SELL is emitted only while entered
C19_SlotsFollowPosition ==
  GD => /\ sell_order # NoOrder => entered
        /\ buy_order # NoOrder => ~entered
        /\ ~(buy_order # NoOrder /\ sell_order # NoOrder)
        /\ out.side = "SELL" => entered

\* C19 witness: a SELL has just been emitted and is pending
C19_Witness ==
  /\ GD /\ out.side = "SELL" /\ sell_order = out /\ buy_order = NoOrder /\ entered

\* C20: once triggered is true it stays true
C20_ArmingPermanent ==
  [][(GD /\ triggered) => triggered']_vars

\* C20 witness: armed, flat again after a filled SELL, and a BULLISH trade has
\* been processed outside the warm-up window
C20_Witness ==
  /\ GD /\ triggered /\ ~entered /\ ntrades[symbol] >= 2
  /\ ev.kind = "onTrade" /\ SignalReady(hist, long_ma) /\ ~InWarmup(now)
  /\ Bullish(hist, long_ma, short_ma)

====
